---- MODULE Spec2Model ----
(***************************************************************************)
(* The authenticated API client of sensor-management-cli                   *)
(* (orchestrator.py, orchestrator_config.py, config.py): the credential    *)
(* list, login(), logout(), header construction and send_request().        *)
(*                                                                         *)
(* Strings that the code splits or concatenates (URLs, URIs, login paths)  *)
(* are sequences of units: the unit "/" is the slash character and every   *)
(* other unit is a slash-free piece of text.  Other strings are TLA+       *)
(* strings.  Python's None is the string "None".  A dict is a function     *)
(* from its keys to its values.                                            *)
(***************************************************************************)
EXTENDS Integers, Sequences, FiniteSets, TLC

None == "None"

EmptyDict == [k \in {} |-> None]

(* ------------------------------------------------------------------ *)
(* Bounds                                                             *)
(* ------------------------------------------------------------------ *)

\* distinct bearer tokens the backends hand out
MaxTokens == 2

(* ------------------------------------------------------------------ *)
(* Python helpers                                                     *)
(* ------------------------------------------------------------------ *)

\* str.split('/') with the piece being read carried in cur
RECURSIVE str_split(_, _)
str_split(s, cur) ==
    IF s = <<>> THEN <<cur>>
    ELSE IF Head(s) = "/" THEN <<cur>> \o str_split(Tail(s), <<>>)
    ELSE str_split(Tail(s), Append(cur, Head(s)))

\* x.split('/')[1] raises IndexError when the split has fewer than two pieces
split1_raises(s) == Len(str_split(s, <<>>)) < 2

split1(s) == str_split(s, <<>>)[2]

\* d.get(key): the value, or None when the key is absent
dict_get(d, key) == IF key \in DOMAIN d THEN d[key] ELSE None

\* d[key] = value
dict_set(d, key, value) == (key :> value) @@ d

\* (mutation) the keys already in d win
dict_update_computed_wins(d, e) == d @@ e

\* d.update(e): the keys of e win
dict_update(d, e) == e @@ d

(* ------------------------------------------------------------------ *)
(* Configurations                                                     *)
(* ------------------------------------------------------------------ *)

Clients == {"agent", "so"}

LoginA == <<"/", "a", "/", "login">>
LoginB == <<"/", "b", "/", "login">>
LogoutA == <<"/", "a", "/", "logout">>
LogoutB == <<"/", "b", "/", "logout">>

TenantUrl == <<"https:", "/", "/", "10.250.1.192">>

\* login_api / logout_api: None, one string, or a list of strings
ApiNone == [kind |-> "none", paths |-> <<>>]
ApiStr(p) == [kind |-> "str", paths |-> <<p>>]
ApiList(ps) == [kind |-> "list", paths |-> ps]

\* OrchestratorConfig(name, url, port, replicated, username, password,
\*                    login_api, logout_api, tenant_id, user_roles)
OrchestratorConfig(name, port, replicated, username, password, login_api, logout_api, tenant_id, user_roles) ==
    [name |-> name, url |-> TenantUrl, port |-> port, replicated |-> replicated,
     username |-> username, password |-> password, login_api |-> login_api,
     logout_api |-> logout_api, tenant_id |-> tenant_id, user_roles |-> user_roles]

\* a gateway-fronted backend (as _AGENT_CONFIG_UCS_DEV1); the login fields
\* are left filled in, as when the replicated flag of a cloud config is set
ConfigReplicated ==
    OrchestratorConfig("Agent-Orchestrate", <<"10015">>, TRUE, "admin", "secret",
                       ApiStr(LoginA), ApiStr(LogoutA), "tenant-1", "system,tenant-admin")

\* a standalone backend with one login path (as _AGENT_CONFIG_CLOUD_DEV0)
ConfigSingle ==
    OrchestratorConfig("Analytics", <<>>, FALSE, "admin", "secret",
                       ApiStr(LoginA), ApiStr(LogoutA), None, None)

\* one login path, no username and password given
ConfigSingleNoUser ==
    OrchestratorConfig("Analytics", <<>>, FALSE, None, None,
                       ApiList(<<LoginB>>), ApiNone, None, None)

\* two login paths, no username and password given
ConfigMultiNoUser ==
    OrchestratorConfig("Sensor-Orchestrator", <<"9081">>, FALSE, None, None,
                       ApiList(<<LoginA, LoginB>>), ApiNone, None, None)

\* a standalone backend with two login paths (as _SO_CONFIG_CLOUD_DEV0)
ConfigMulti ==
    OrchestratorConfig("Sensor-Orchestrator", <<"9081">>, FALSE, "admin", "secret",
                       ApiList(<<LoginA, LoginB>>), ApiList(<<LogoutB, LogoutA>>),
                       None, None)

\* a standalone backend without login (as _YGW_CONFIG_CLOUD_DEV0)
ConfigNoLogin ==
    OrchestratorConfig("Yang-Gateway", <<"8444">>, FALSE, None, None,
                       ApiNone, ApiNone, None, None)

\* the pairs of configurations the two clients of a process are built from
Scenarios ==
    { [agent |-> ConfigReplicated, so |-> ConfigMulti],
      [agent |-> ConfigSingle, so |-> ConfigMulti],
      [agent |-> ConfigSingle, so |-> ConfigReplicated],
      [agent |-> ConfigSingleNoUser, so |-> ConfigNoLogin],
      [agent |-> ConfigMultiNoUser, so |-> ConfigNoLogin] }

(* ------------------------------------------------------------------ *)
(* The HTTP environment                                               *)
(* ------------------------------------------------------------------ *)

Response(status, headers, cookies) ==
    [raised |-> FALSE, status |-> status, headers |-> headers, cookies |-> cookies]

\* requests raised (connection refused, DNS, TLS): there is no response
TransportError ==
    [raised |-> TRUE, status |-> 0, headers |-> EmptyDict, cookies |-> None]

Tokens == {"token-" \o ToString(i) : i \in 1 .. MaxTokens}

\* what a backend may answer to a login POST: a bearer token in the
\* Authorization header, session cookies, or a refusal with an empty jar
LoginResponses ==
    {Response(200, "Authorization" :> t, "jar0") : t \in Tokens}
    \cup { Response(200, EmptyDict, "jar1"),
           Response(401, EmptyDict, "jar0"),
           TransportError }

\* what a backend may answer to any other request
Responses ==
    { Response(200, EmptyDict, "jar0"),
      Response(500, EmptyDict, "jar0"),
      TransportError }

\* r.ok
ok(r) == r.status >= 200 /\ r.status < 400

Methods == {"GET"}

\* the params and body arguments of send_request: None or a dict
NoParams == [isNone |-> TRUE, dict |-> EmptyDict]
NoBody == [isNone |-> TRUE, dict |-> EmptyDict]
DictArg(d) == [isNone |-> FALSE, dict |-> d]

Params == {NoParams}

Bodies == {NoBody}

\* the URIs the wrappers are called with: one with a path segment, one
\* without "/"
WrapperUris == { <<"/", "b", "/", "res">>, <<"res">> }

\* the params and body a wrapper is called with: none, or both given
WrapperArgs ==
    { [params |-> NoParams, body |-> NoBody],
      [params |-> DictArg("page" :> "1"), body |-> DictArg("name" :> "s1")] }

Uris ==
    { <<"/", "a", "/", "res">>, <<"/", "b", "/", "res">>, <<"/", "c", "/", "res">>,
      <<"res">> }

\* the headers argument of send_request: None or a dict
NoHeaders == [isNone |-> TRUE, dict |-> EmptyDict]
HeadersArg(d) == [isNone |-> FALSE, dict |-> d]

ExtraHeaders ==
    { NoHeaders,
      HeadersArg(("Accept" :> "text/xml") @@ ("X-Trace" :> "1")),
      HeadersArg(("Authorization" :> "caller-token")
                 @@ ("X-Forwarded-Tenant-Id" :> "other-tenant")) }

\* Python truth value of the headers argument
truthy(h) == ~h.isNone /\ DOMAIN h.dict # {}

(* ------------------------------------------------------------------ *)
(* State                                                              *)
(* ------------------------------------------------------------------ *)

VARIABLES
    config,       \* the OrchestratorConfig object each client is built from
    config_given, \* the field values each config object was constructed with
    constructed,  \* whether Orchestrator(config) has run for the client
    token,        \* Orchestrator.token, the class attribute
    token_before, \* Orchestrator.token when the last call began
    call,         \* the last call made on a client, with its outcome
    sent,         \* the HTTP exchanges of the last call, in order
    loginCalled,  \* whether login() was called before, per client
    run           \* the tool process: its place in main, its exit code, its events

vars == <<config, config_given, constructed, token, token_before, call, sent, loginCalled,
          run>>

\* self.token: no instance ever assigns the attribute, so it is the class's list
self_token(c) == token

RetNone == [kind |-> "None"]
RetBool(b) == [kind |-> "bool", value |-> b]
RetResponse(r) == [kind |-> "response", value |-> r]

\* a call record: outcome is "returned", "transport_error" or "IndexError"
\* first: no login() call was made on the client before this call
Call(op, c, method, uri, headers, params, body, outcome, ret, warning, first) ==
    [op |-> op, client |-> c, method |-> method, uri |-> uri, headers |-> headers,
     params |-> params, body |-> body, outcome |-> outcome, ret |-> ret, warning |-> warning,
     first |-> first]

\* a call of login() or logout(), which take no arguments
Call0(op, c, outcome, ret, warning, first) ==
    Call(op, c, None, <<>>, NoHeaders, NoParams, NoBody, outcome, ret, warning, first)

\* one HTTP exchange: the request as handed to requests, and what came back
Exchange(method, url, headers, cookies, params, data, json, resp) ==
    [method |-> method, url |-> url, headers |-> headers, cookies |-> cookies,
     params |-> params, data |-> data, json |-> json, resp |-> resp]

\* no tool process is running: the clients are called directly
NoRun ==
    [tool |-> "agent", argv |-> <<>>, pc |-> "none", exited |-> FALSE, code |-> 0,
     dispatched |-> FALSE, log |-> <<>>, interrupted_at |-> "none",
     cmd |-> "none", arg |-> <<>>, body |-> NoBody, requests |-> <<>>, todo |-> <<>>,
     answer |-> "none", fetched |-> <<>>]

Init ==
    /\ config \in Scenarios
    /\ config_given = config
    /\ constructed = [c \in Clients |-> FALSE]
    /\ token = <<>>
    /\ token_before = <<>>
    /\ call = Call0("none", "agent", "returned", RetNone, FALSE, TRUE)
    /\ sent = <<>>
    /\ loginCalled = [c \in Clients |-> FALSE]
    /\ run = NoRun

\* Orchestrator.__init__
__init__(c) ==
    /\ ~constructed[c]
    /\ constructed' = [constructed EXCEPT ![c] = TRUE]
    /\ config' = [config EXCEPT ![c].url = config[c].url \o <<":">> \o config[c].port]
    /\ UNCHANGED <<config_given, token, token_before, call, sent, loginCalled>>

(* ------------------------------------------------------------------ *)
(* Credential selection                                               *)
(* ------------------------------------------------------------------ *)

\* _is_auth_token
_is_auth_token(c) == Len(self_token(c)) > 0

\* the loop of _get_auth_token and _get_auth_cookies from credential i on:
\* the index of the first credential whose login path has the URI's second
\* split piece, 0 when the loop ends without one, -1 when a split raises
\* (mutation) the loop never matches: always the first credential
find_match_never(tok, uri, i) ==
    IF split1_raises(tok[i].login_api) \/ split1_raises(uri) THEN -1 ELSE 0

RECURSIVE find_match(_, _, _)
find_match(tok, uri, i) ==
    IF i > Len(tok) THEN 0
    ELSE IF split1_raises(tok[i].login_api) \/ split1_raises(uri) THEN -1
    ELSE IF split1(tok[i].login_api) = split1(uri) THEN i
    ELSE find_match(tok, uri, i + 1)

Returned(v) == [raised |-> FALSE, value |-> v]
IndexError == [raised |-> TRUE, value |-> None]

\* _get_auth_token
_get_auth_token(c, uri) ==
    LET tok == self_token(c)
        m == IF Len(tok) > 1 THEN find_match(tok, uri, 1) ELSE 0
    IN  IF m = -1 THEN IndexError
        ELSE IF m > 0 THEN Returned(dict_get(tok[m], "token"))
        ELSE IF Len(tok) > 0 THEN Returned(dict_get(tok[1], "token"))
        ELSE Returned(None)

\* _get_auth_cookies
_get_auth_cookies(c, uri) ==
    LET tok == self_token(c)
        m == IF Len(tok) > 1 THEN find_match(tok, uri, 1) ELSE 0
    IN  IF m = -1 THEN IndexError
        ELSE IF m > 0 THEN Returned(dict_get(tok[m], "cookies"))
        ELSE IF Len(tok) > 1 THEN Returned(dict_get(tok[1], "cookies"))
        ELSE Returned(None)

(* ------------------------------------------------------------------ *)
(* login                                                              *)
(* ------------------------------------------------------------------ *)

\* truth value of login_api / logout_api: None, "" and [] are false
api_truthy(a) ==
    \/ a.kind = "str" /\ a.paths[1] # <<>>
    \/ a.kind = "list" /\ a.paths # <<>>

\* (mutation) the cookie jar is stored next to the token
new_credential_both(login_api, r) ==
    IF "Authorization" \in DOMAIN r.headers
    THEN [login_api |-> login_api, token |-> r.headers["Authorization"],
          cookies |-> r.cookies]
    ELSE [login_api |-> login_api, cookies |-> r.cookies]

\* the credential _login appends for a response
new_credential(login_api, r) ==
    IF "Authorization" \in DOMAIN r.headers
    THEN [login_api |-> login_api, token |-> r.headers["Authorization"]]
    ELSE [login_api |-> login_api, cookies |-> r.cookies]

\* (mutation) a credential is stored only for a response that is ok
_login_only_ok(c, login_api, r, st) ==
    LET auth_url == config[c].url \o login_api
        auth == [username |-> config[c].username, password |-> config[c].password]
        x == Exchange("POST", auth_url, EmptyDict, None, NoParams, auth, NoBody, r)
    IN  IF r.raised
        THEN [token |-> st.token, sent |-> Append(st.sent, x), raised |-> TRUE]
        ELSE [token |-> IF ok(r) THEN Append(st.token, new_credential(login_api, r))
                        ELSE st.token,
              sent |-> Append(st.sent, x), raised |-> FALSE]

\* _login on the running state st = [token, sent, raised] of a login() call
_login(c, login_api, r, st) ==
    LET auth_url == config[c].url \o login_api
        auth == [username |-> config[c].username, password |-> config[c].password]
        x == Exchange("POST", auth_url, EmptyDict, None, NoParams, auth, NoBody, r)
    IN  IF r.raised
        THEN [token |-> st.token, sent |-> Append(st.sent, x), raised |-> TRUE]
        ELSE [token |-> Append(st.token, new_credential(login_api, r)),
              sent |-> Append(st.sent, x), raised |-> FALSE]

\* (mutation) only the first path of a list is logged in to
login_paths_first_only(a) == <<a.paths[1]>>

\* the paths login() posts to: every element of a list, or the one string
login_paths(a) == a.paths

\* the for loop of login(): an exception ends it
RECURSIVE login_loop(_, _, _, _, _)
login_loop(c, paths, rs, i, st) ==
    IF i > Len(paths) \/ st.raised THEN st
    ELSE login_loop(c, paths, rs, i + 1, _login(c, paths[i], rs[i], st))

\* (mutation) login() does not look at the credential list
login_skips_no_token_check(c) ==
    \/ config[c].replicated
    \/ ~api_truthy(config[c].login_api)

\* (mutation) login() does not look at the replicated flag
login_skips_no_replicated_check(c) ==
    \/ _is_auth_token(c)
    \/ ~api_truthy(config[c].login_api)

\* (mutation) login() returns early when username or password is missing
login_skips_missing_user(c) ==
    \/ config[c].replicated
    \/ _is_auth_token(c)
    \/ ~api_truthy(config[c].login_api)
    \/ config[c].username = None
    \/ config[c].password = None

\* the early returns of login()
login_skips(c) ==
    \/ config[c].replicated
    \/ _is_auth_token(c)
    \/ ~api_truthy(config[c].login_api)

\* the warning of login()
login_warns(c) == config[c].username = None \/ config[c].password = None

login(c) ==
    /\ constructed[c]
    /\ loginCalled' = [loginCalled EXCEPT ![c] = TRUE]
    /\ token_before' = token
    /\ IF login_skips(c)
       THEN /\ call' = Call0("login", c, "returned", RetNone, FALSE, ~loginCalled[c])
            /\ sent' = <<>>
            /\ token' = token
       ELSE LET paths == login_paths(config[c].login_api)
            IN  \E rs \in [1 .. Len(paths) -> LoginResponses] :
                  LET st == login_loop(c, paths, rs, 1,
                                       [token |-> self_token(c), sent |-> <<>>,
                                        raised |-> FALSE])
                  IN  /\ token' = st.token
                      /\ sent' = st.sent
                      /\ call' = IF st.raised
                                 THEN Call0("login", c, "transport_error", RetNone,
                                            login_warns(c), ~loginCalled[c])
                                 ELSE Call0("login", c, "returned",
                                            RetBool(Len(st.token) > 0), login_warns(c),
                                            ~loginCalled[c])
    /\ UNCHANGED <<config, config_given, constructed>>

(* ------------------------------------------------------------------ *)
(* logout                                                             *)
(* ------------------------------------------------------------------ *)

\* (mutation) every logout POST carries the first credential's token
_logout_first_token(c, logout_api, t, r, st) ==
    LET auth_url == config[c].url \o logout_api
        headers == ("Authorization" :> dict_get(self_token(c)[1], "token"))
                   @@ ("Content-type" :> "application/vnd.api+json")
        x == Exchange("POST", auth_url, headers, None, NoParams, None, NoBody, r)
    IN  IF t.raised THEN [sent |-> st.sent, outcome |-> "IndexError"]
        ELSE [sent |-> Append(st.sent, x),
              outcome |-> IF r.raised THEN "transport_error" ELSE "returned"]

\* _logout on the running state st = [sent, outcome] of a logout() call;
\* t is the result of _get_auth_token(logout_api), evaluated first
_logout(c, logout_api, t, r, st) ==
    LET auth_url == config[c].url \o logout_api
        headers == ("Authorization" :> t.value)
                   @@ ("Content-type" :> "application/vnd.api+json")
        x == Exchange("POST", auth_url, headers, None, NoParams, None, NoBody, r)
    IN  IF t.raised THEN [sent |-> st.sent, outcome |-> "IndexError"]
        ELSE [sent |-> Append(st.sent, x),
              outcome |-> IF r.raised THEN "transport_error" ELSE "returned"]

\* the for loop of logout(): an exception ends it
RECURSIVE logout_loop(_, _, _, _, _)
logout_loop(c, paths, rs, i, st) ==
    IF i > Len(paths) \/ st.outcome # "returned" THEN st
    ELSE logout_loop(c, paths, rs, i + 1,
                     _logout(c, paths[i], _get_auth_token(c, paths[i]), rs[i], st))

\* (mutation) logout() does not look at the credential list
logout_skips_no_token_check(c) ==
    \/ config[c].replicated
    \/ ~api_truthy(config[c].logout_api)

\* whether logout() posts at all
logout_skips(c) ==
    \/ config[c].replicated
    \/ ~(api_truthy(config[c].logout_api) /\ _is_auth_token(c))

\* (mutation) logout() empties the credential list after its POSTs
logout_clears_token(c) ==
    /\ constructed[c]
    /\ token_before' = token
    /\ IF logout_skips(c)
       THEN /\ call' = Call0("logout", c, "returned", RetNone, FALSE, ~loginCalled[c])
            /\ sent' = <<>>
            /\ token' = token
       ELSE LET paths == config[c].logout_api.paths
            IN  \E rs \in [1 .. Len(paths) -> Responses] :
                  LET st == logout_loop(c, paths, rs, 1,
                                        [sent |-> <<>>, outcome |-> "returned"])
                  IN  /\ sent' = st.sent
                      /\ token' = <<>>
                      /\ call' = Call0("logout", c, st.outcome, RetNone, FALSE,
                                       ~loginCalled[c])
    /\ UNCHANGED <<config, config_given, constructed, loginCalled>>

logout(c) ==
    /\ constructed[c]
    /\ token_before' = token
    /\ IF logout_skips(c)
       THEN /\ call' = Call0("logout", c, "returned", RetNone, FALSE, ~loginCalled[c])
            /\ sent' = <<>>
       ELSE LET paths == config[c].logout_api.paths
            IN  \E rs \in [1 .. Len(paths) -> Responses] :
                  LET st == logout_loop(c, paths, rs, 1,
                                        [sent |-> <<>>, outcome |-> "returned"])
                  IN  /\ sent' = st.sent
                      /\ call' = Call0("logout", c, st.outcome, RetNone, FALSE,
                                       ~loginCalled[c])
    /\ UNCHANGED <<config, config_given, constructed, token, loginCalled>>

(* ------------------------------------------------------------------ *)
(* send_request                                                       *)
(* ------------------------------------------------------------------ *)

\* (mutation) the forwarding headers are left out
computed_headers_no_forwarding(c, t) ==
    LET h0 == "Accept" :> "application/json"
    IN  IF _is_auth_token(c) THEN dict_set(h0, "Authorization", t) ELSE h0

\* the headers build_http_headers computes before it merges the caller's
computed_headers(c, t) ==
    LET h0 == "Accept" :> "application/json"
        h1 == IF config[c].replicated
              THEN dict_set(dict_set(h0, "X-Forwarded-Tenant-Id", config[c].tenant_id),
                            "X-Forwarded-User-Roles", config[c].user_roles)
              ELSE h0
    IN  IF _is_auth_token(c) THEN dict_set(h1, "Authorization", t) ELSE h1

\* build_http_headers
build_http_headers(c, uri, extra_headers) ==
    LET t == IF _is_auth_token(c) THEN _get_auth_token(c, uri) ELSE Returned(None)
        headers == computed_headers(c, t.value)
    IN  IF t.raised THEN IndexError
        ELSE IF truthy(extra_headers)
        THEN Returned(dict_update(headers, extra_headers.dict))
        ELSE Returned(headers)

\* (mutation) a response that is not ok is raised, as raise_for_status does
send_request_result_raise_for_status(r) ==
    IF r.raised \/ ~ok(r) THEN [outcome |-> "transport_error", ret |-> RetNone]
    ELSE [outcome |-> "returned", ret |-> RetResponse(r)]

\* (mutation) a transport failure is swallowed and None is returned
send_request_result_swallows(r) ==
    IF r.raised THEN [outcome |-> "returned", ret |-> RetNone]
    ELSE [outcome |-> "returned", ret |-> RetResponse(r)]

\* what send_request hands back for the transport's answer
send_request_result(r) ==
    IF r.raised THEN [outcome |-> "transport_error", ret |-> RetNone]
    ELSE [outcome |-> "returned", ret |-> RetResponse(r)]

\* the requests send_request hands to the transport for one call
send_request_sent(x) == <<x>>

\* (mutation) the request's URL is kept as the client's base URL
send_request_frame_keeps_url(c, url) ==
    /\ config' = [config EXCEPT ![c].url = url]
    /\ UNCHANGED <<config_given, constructed, token, loginCalled>>

\* send_request assigns no attribute of the client or of its config
send_request_frame(c, url) ==
    UNCHANGED <<config, config_given, constructed, token, loginCalled>>

\* the call as the caller made it: the method of the client entered, and the
\* arguments given to it
Entry(op, uri, headers, params, body) ==
    [op |-> op, uri |-> uri, headers |-> headers, params |-> params, body |-> body]

\* the body of send_request; e is the call by which the caller entered
do_send_request(e, c, method, uri, headers, params, body) ==
    /\ constructed[c]
    /\ token_before' = token
    /\ LET url == config[c].url \o uri
           h == build_http_headers(c, uri, headers)
           ck == _get_auth_cookies(c, uri)
       IN  /\ IF h.raised \/ ck.raised
              THEN /\ sent' = <<>>
                   /\ call' = Call(e.op, c, method, e.uri, e.headers, e.params, e.body,
                                   "IndexError", RetNone, FALSE, ~loginCalled[c])
              ELSE \E r \in Responses :
                     LET res == send_request_result(r)
                         x == Exchange(method, url, h.value, ck.value, params, None, body, r)
                     IN  /\ sent' = send_request_sent(x)
                         /\ call' = Call(e.op, c, method, e.uri, e.headers, e.params, e.body,
                                         res.outcome, res.ret, FALSE, ~loginCalled[c])
           /\ send_request_frame(c, url)

send_request(c, method, uri, headers, params, body) ==
    do_send_request(Entry("send_request", uri, headers, params, body),
                    c, method, uri, headers, params, body)

(* ------------------------------------------------------------------ *)
(* get / post / put / patch / delete                                  *)
(* ------------------------------------------------------------------ *)

get(c, uri, headers, params, body) ==
    do_send_request(Entry("get", uri, headers, params, body),
                    c, "GET", uri, headers, params, body)

post(c, uri, headers, params, body) ==
    do_send_request(Entry("post", uri, headers, params, body),
                    c, "POST", uri, headers, params, body)

put(c, uri, headers, params, body) ==
    do_send_request(Entry("put", uri, headers, params, body),
                    c, "PUT", uri, headers, params, body)

\* (mutation) patch hands body over as params and params as body
patch_swaps_params_body(c, uri, headers, params, body) ==
    do_send_request(Entry("patch", uri, headers, params, body),
                    c, "PATCH", uri, headers, body, params)

patch(c, uri, headers, params, body) ==
    do_send_request(Entry("patch", uri, headers, params, body),
                    c, "PATCH", uri, headers, params, body)

delete(c, uri, headers, params, body) ==
    do_send_request(Entry("delete", uri, headers, params, body),
                    c, "DELETE", uri, headers, params, body)

Wrappers == {"get", "post", "put", "patch", "delete"}

(* ------------------------------------------------------------------ *)
(* The command-line tools: agent.py and so.py                         *)
(* ------------------------------------------------------------------ *)

\* the command lines a tool is started with: no argument, a command without
\* arguments, a command with one argument
Argvs ==
    [agent |-> {<<>>, <<"get_sessions">>, <<"get", "res">>},
     so |-> {<<>>, <<"get_sessions_y1564">>, <<"get_session_echo", "id1">>}]

\* API_URL + "/sessions" of agent.py
SessionsUrl ==
    <<"/", "api", "/", "orchestrate", "/", "v3", "/", "agents", "/", "sessions">>

\* the URL of get_all_y1564_sessions
Y1564Url ==
    <<"/", "nbapiemswsweb", "/", "rest", "/", "v1", "/", "Search", "/", "Y1564TestConfig">>

\* what response.json() gives for a response that is ok: not JSON (it
\* raises), no content, some sessions
Contents == {"not_json", "empty", "sessions"}

\* what the operator types at a prompt
Answers == {"y", "Y", "n", ""}

\* str.lower
lower(a) == IF a = "Y" THEN "y" ELSE a

\* the process ends with the exit code, after the events evs
Exited(r, code, evs) ==
    [r EXCEPT !.pc = "exited", !.exited = TRUE, !.code = code, !.log = @ \o evs]

\* the process goes on at pc, after the events evs
Goto(r, pc, evs) == [r EXCEPT !.pc = pc, !.log = @ \o evs]

\* the module-level parse_args() of rep.py, which reads the tool's command
\* line when config imports rep: a second positional argument is an error
rep_parse_args(r) ==
    IF Len(r.argv) > 1 THEN Exited(r, 2, <<"usage_error">>)
    ELSE Goto(r, "tenant_info", <<>>)

\* (mutation) the interrupt handler of main ends the process as a signal does
main_except_KeyboardInterrupt_130(r, evs) == Exited(r, 130, evs)

\* except KeyboardInterrupt of main
main_except_KeyboardInterrupt(r, evs) == Exited(r, 0, evs)

\* except Exception of main
main_except_Exception(r, evs) == Exited(r, 1, evs)

\* except Exception of the tool's send_request helper
send_request_except_Exception(r, evs) == Exited(r, 1, evs)

\* main returns and the interpreter ends
main_returns(r, evs) == Exited(r, 0, evs)

\* python agent.py ARGV / python so.py ARGV
tool_start(t, argv) ==
    /\ run.pc = "none"
    /\ \A c \in Clients : ~constructed[c]
    /\ run' = [run EXCEPT !.tool = t, !.argv = argv, !.pc = "import"]
    /\ UNCHANGED <<config, config_given, constructed, token, token_before, call, sent,
                   loginCalled>>

\* from rep import get_tenant_info
import_rep ==
    /\ run.pc = "import"
    /\ run' = rep_parse_args(run)
    /\ UNCHANGED <<config, config_given, constructed, token, token_before, call, sent,
                   loginCalled>>

\* tenant_info = get_tenant_info(_TENANT_URL); _TENANT_ID = tenant_info["tenantId"]
\* a connection error leaves no tenantId and the lookup raises KeyError
import_config ==
    /\ run.pc = "tenant_info"
    /\ \E fetched \in BOOLEAN :
         run' = IF fetched THEN Goto(run, "construct", <<>>)
                ELSE Exited(run, 1, <<"import_error">>)
    /\ UNCHANGED <<config, config_given, constructed, token, token_before, call, sent,
                   loginCalled>>

\* agent = Orchestrator(_AGENT_CONFIG) ... of config.py
import_construct(c) ==
    /\ run.pc = "construct"
    /\ __init__(c)
    /\ UNCHANGED run

\* (mutation) main goes to the command without logging in
main_parse_skips_login ==
    /\ run.pc = "construct"
    /\ \A c \in Clients : constructed[c]
    /\ run' = IF run.argv = <<>> THEN main_returns(run, <<"help">>)
              ELSE [Goto(run, "command", <<>>) EXCEPT !.dispatched = TRUE]
    /\ UNCHANGED <<config, config_given, constructed, token, token_before, call, sent,
                   loginCalled>>

\* main up to the try block: help without arguments, else the command found
main_parse ==
    /\ run.pc = "construct"
    /\ \A c \in Clients : constructed[c]
    /\ run' = IF run.argv = <<>> THEN main_returns(run, <<"help">>)
              ELSE [Goto(run, "login", <<>>) EXCEPT !.dispatched = TRUE]
    /\ UNCHANGED <<config, config_given, constructed, token, token_before, call, sent,
                   loginCalled>>

\* orchestrator.login() in main
main_login ==
    /\ run.pc = "login"
    /\ login(run.tool)
    /\ run' = IF call'.outcome = "returned" THEN Goto(run, "command", <<"login">>)
              ELSE main_except_Exception(run, <<"login", "login_raised">>)

\* print_sessions of agent.py, the command get_sessions
print_sessions ==
    /\ run.pc = "command" /\ run.tool = "agent" /\ run.argv = <<"get_sessions">>
    /\ get("agent", SessionsUrl, NoHeaders, NoParams, NoBody)
    /\ run' = IF call'.outcome = "returned"
              THEN Goto(run, "logout", <<"request">>)
              ELSE Goto(run, "logout", <<"request", "request_raised", "error_printed">>)

\* send_request(method, url, body) of so.py: the third positional argument
\* of Orchestrator.send_request is headers
so_send_request(method, url, body) ==
    send_request("so", method, url, body, NoParams, NoBody)

\* print_all_y1564_sessions of so.py up to its prompt, the command
\* get_sessions_y1564
print_all_y1564_sessions ==
    /\ run.pc = "command" /\ run.tool = "so" /\ run.argv = <<"get_sessions_y1564">>
    /\ so_send_request("GET", Y1564Url, NoBody)
    /\ \E content \in Contents :
         run' = IF call'.outcome # "returned"
                THEN send_request_except_Exception(
                         run, <<"request", "request_raised", "helper_exit">>)
                ELSE IF ~ok(call'.ret.value) \/ content = "empty"
                THEN Goto(run, "logout", <<"request">>)
                ELSE IF content = "not_json"
                THEN Goto(run, "logout", <<"request", "error_printed">>)
                ELSE Goto(run, "prompt", <<"request">>)

\* the prompt "Show detailed JSON? (y/n)" of print_all_y1564_sessions
print_all_y1564_sessions_input ==
    /\ run.pc = "prompt"
    /\ \E a \in Answers :
         run' = Goto(run, "logout", IF lower(a) = "y" THEN <<"prompt", "json_printed">>
                                    ELSE <<"prompt">>)
    /\ UNCHANGED <<config, config_given, constructed, token, token_before, call, sent,
                   loginCalled>>

\* orchestrator.logout() in main, and main's return
main_logout ==
    /\ run.pc = "logout"
    /\ logout(run.tool)
    /\ run' = IF call'.outcome = "returned" THEN main_returns(run, <<"logout">>)
              ELSE main_except_Exception(run, <<"logout", "logout_raised">>)

\* (mutation) the interrupt handler logs out before it exits
main_KeyboardInterrupt_logs_out ==
    /\ run.pc \in {"login", "command", "prompt", "logout"}
    /\ logout(run.tool)
    /\ run' = [main_except_KeyboardInterrupt(run, <<"interrupt", "logout">>)
                  EXCEPT !.interrupted_at = run.pc]

\* Ctrl-C while main is in its try block: in login, in a request, at a
\* prompt, in logout
main_KeyboardInterrupt ==
    /\ run.pc \in {"login", "command", "prompt", "logout"}
    /\ run' = [main_except_KeyboardInterrupt(run, <<"interrupt">>)
                  EXCEPT !.interrupted_at = run.pc]
    /\ UNCHANGED <<config, config_given, constructed, token, token_before, call, sent,
                   loginCalled>>

(* ------------------------------------------------------------------ *)
(* The commands of the tools, called as functions                     *)
(* ------------------------------------------------------------------ *)

VerbMethods == {"GET", "POST", "PUT", "PATCH", "DELETE"}

\* the URI argument of the generic verb commands: relative, or with "/"
VerbUris == { <<"api", "/", "x">>, <<"/", "api", "/", "x">> }

\* the body argument of the tools' send_request helper: None or a dict
HelperBodies == { NoBody, DictArg("name" :> "s1") }

\* the command cmd of the tool t was called with the argument arg
Called(r, t, cmd, arg) == [r EXCEPT !.tool = t, !.cmd = cmd, !.arg = arg]

\* send_request(method, url, body) of agent.py: the third positional
\* argument of Orchestrator.send_request is headers
agent_send_request(method, url, body) ==
    send_request("agent", method, url, body, NoParams, NoBody)

\* the commands get/post/put/patch/delete URI of agent.py:
\* lambda a: send_request(METHOD, f"{orchestrator.get_url()}/{a.uri}")
agent_verb(method, uri) ==
    /\ run.pc = "none"
    /\ agent_send_request(method, config["agent"].url \o <<"/">> \o uri, NoBody)
    /\ run' = LET r == Called(run, "agent", "verb", uri)
              IN  IF call'.outcome = "returned" THEN Goto(r, "returned", <<"request">>)
                  ELSE send_request_except_Exception(
                           r, <<"request", "request_raised", "helper_exit">>)

\* a call of the helper send_request(method, url, body) of so.py, as the
\* functions of the tool make it, with or without a body
so_send_request_call(method, url, body) ==
    /\ run.pc = "none"
    /\ so_send_request(method, url, body)
    /\ run' = LET r == [Called(run, "so", "send_request", url) EXCEPT !.body = body]
              IN  IF call'.outcome = "returned" THEN Goto(r, "returned", <<"request">>)
                  ELSE send_request_except_Exception(
                           r, <<"request", "request_raised", "helper_exit">>)

(* ------------------------------------------------------------------ *)
(* The bulk-delete commands (agent.py delete_sessions, ana.py         *)
(* delete_all_policies), called as functions                          *)
(* ------------------------------------------------------------------ *)

\* the client of ana.py, "from config import analytics as orchestrator": an
\* Orchestrator with one login path, which the model's agent client is in
\* the standalone scenarios
Analytics == "agent"

\* the prefix argument "all"
All == <<"all">>

\* the prefix arguments of delete_sessions
Prefixes == { All, <<"s">>, <<"x">> }

\* a session without a sessionId: .get('sessionId') is None, which the
\* f-string of delete_session writes as the text None
NoSessionId == <<None>>

\* what response.json() gives for the session list: not JSON (it raises),
\* or the sessionId of each session of 'data'
SessionContents ==
    { [kind |-> "not_json", ids |-> <<>>],
      [kind |-> "data", ids |-> <<>>],
      [kind |-> "data", ids |-> << <<"s", "1">>, <<"t", "1">>, <<"s", "2">> >>],
      [kind |-> "data", ids |-> << <<"s", "1">>, NoSessionId >>] }

\* what response.json() gives for the policy list: not JSON, a policy
\* without 'id' (policy['id'] raises KeyError), or the id of each policy
PolicyContents ==
    { [kind |-> "not_json", ids |-> <<>>],
      [kind |-> "missing_id", ids |-> <<>>],
      [kind |-> "data", ids |-> <<>>],
      [kind |-> "data", ids |-> << <<"p1">>, <<"p2">> >>] }

\* what the operator types at "Proceed with deletion? (yes/no): "
ConfirmAnswers == {"yes", "y", "YES", "Y", "Yes", "no", "n", ""}

\* confirm.lower()
confirm_lower(a) ==
    IF a \in {"YES", "Yes"} THEN "yes" ELSE IF a = "Y" THEN "y" ELSE a

\* session_id.startswith(prefix)
startswith(s, prefix) ==
    Len(prefix) <= Len(s) /\ SubSeq(s, 1, Len(prefix)) = prefix

\* the filter of delete_sessions raises AttributeError: None.startswith
sessions_to_delete_raises(sessions, prefix) ==
    prefix # All /\ \E i \in 1 .. Len(sessions) : sessions[i] = NoSessionId

sessions_to_delete_unfiltered(sessions, prefix) == sessions

\* sessions_to_delete of delete_sessions
sessions_to_delete(sessions, prefix) ==
    SelectSeq(sessions, LAMBDA id : prefix = All \/ startswith(id, prefix))

\* the url of delete_session(session_id)
SessionUrl(id) ==
    <<"/", "api", "/", "orchestrate", "/", "v3", "/", "agents", "/", "session", "/">> \o id

\* the url of get_alerting_policies
PoliciesUrl == <<"/", "api", "/", "v2", "/", "policies", "/", "alerting">>

\* the url of delete_alerting_policy_v2(policy_id)
PolicyUrlV2(id) == PoliciesUrl \o <<"/">> \o id

\* the url of delete_alerting_policy_v3(policy_id)
PolicyUrlV3(id) == <<"/", "api", "/", "v3", "/", "policies", "/", "alerting", "/">> \o id

\* the params of delete_alerting_policy_v3(policy_id, ignore_alerts=True)
IgnoreAlerts == DictArg("ignoreAlerts" :> "true")

\* the requests the command has issued, with the one just sent
Requested(r, s) ==
    [r EXCEPT !.requests =
        @ \o [i \in 1 .. Len(s) |->
                 [method |-> s[i].method, url |-> s[i].url, params |-> s[i].params]]]

\* "except Exception" of a bulk-delete command: the error is printed and
\* the command returns
command_except_Exception(r, evs) == Goto(r, "returned", evs \o <<"error_printed">>)

\* delete_sessions(prefix) of agent.py up to its prompt
delete_sessions(prefix) ==
    /\ run.pc = "none"
    /\ get("agent", SessionsUrl, NoHeaders, NoParams, NoBody)
    /\ \E content \in SessionContents :
         run' = LET r == Requested(Called(run, "agent", "delete_sessions", prefix), sent')
                    f == [r EXCEPT !.fetched = content.ids]
                IN  IF call'.outcome # "returned"
                    THEN command_except_Exception(r, <<"request", "request_raised">>)
                    ELSE IF ~ok(call'.ret.value)
                    THEN Goto(r, "returned", <<"request", "fetch_failed">>)
                    ELSE IF content.kind = "not_json"
                    THEN command_except_Exception(r, <<"request", "json_raised">>)
                    ELSE IF sessions_to_delete_raises(content.ids, prefix)
                    THEN command_except_Exception(f, <<"request", "filter_raised">>)
                    ELSE IF sessions_to_delete(content.ids, prefix) = <<>>
                    THEN Goto(f, "returned", <<"request", "none_found">>)
                    ELSE Goto([f EXCEPT !.todo = sessions_to_delete(content.ids, prefix)],
                              "confirm", <<"request">>)

\* delete_all_policies() of ana.py up to its prompt
delete_all_policies ==
    /\ run.pc = "none"
    /\ get(Analytics, PoliciesUrl, NoHeaders, NoParams, NoBody)
    /\ \E content \in PolicyContents :
         run' = LET r == Requested(Called(run, "ana", "delete_all_policies", <<>>), sent')
                    f == [r EXCEPT !.fetched = content.ids]
                IN  IF call'.outcome # "returned"
                    THEN command_except_Exception(r, <<"request", "request_raised">>)
                    ELSE IF ~ok(call'.ret.value)
                    THEN Goto(r, "returned", <<"request", "fetch_failed">>)
                    ELSE IF content.kind = "not_json"
                    THEN command_except_Exception(r, <<"request", "json_raised">>)
                    ELSE IF content.kind = "missing_id"
                    THEN command_except_Exception(r, <<"request", "id_raised">>)
                    ELSE IF content.ids = <<>>
                    THEN Goto(f, "returned", <<"request", "none_found">>)
                    ELSE Goto([f EXCEPT !.todo = content.ids], "confirm", <<"request">>)

\* the pc at which the command deletes, once confirmed
deleting(cmd) == IF cmd = "delete_sessions" THEN "deleting" ELSE "deleting_v2"

\* the confirmation prompt of both commands: console.input returns what
\* the operator typed, or raises EOFError when the input is closed
confirm_input ==
    /\ run.pc = "confirm"
    /\ \/ \E a \in ConfirmAnswers :
            run' = LET r == [run EXCEPT !.answer = a]
                   IN  IF confirm_lower(a) \notin {"yes", "y"}
                       THEN Goto(r, "returned", <<"prompt", "cancelled">>)
                       ELSE Goto(r, deleting(run.cmd), <<"prompt">>)
       \/ run' = command_except_Exception(run, <<"prompt", "input_raised">>)
    /\ UNCHANGED <<config, config_given, constructed, token, token_before, call, sent,
                   loginCalled>>

\* one turn of the deletion loop of delete_sessions
delete_sessions_loop ==
    /\ run.pc = "deleting"
    /\ delete("agent", SessionUrl(Head(run.todo)), NoHeaders, NoParams, NoBody)
    /\ run' = LET r == Requested(run, sent')
                  t == [r EXCEPT !.todo = Tail(@)]
              IN  IF call'.outcome # "returned"
                  THEN command_except_Exception(r, <<"request", "request_raised">>)
                  ELSE IF t.todo = <<>> THEN Goto(t, "returned", <<"request">>)
                  ELSE Goto(t, "deleting", <<"request">>)

\* delete_alerting_policy_v2(policy_id) in the loop of delete_all_policies
delete_alerting_policy_v2 ==
    /\ run.pc = "deleting_v2"
    /\ delete(Analytics, PolicyUrlV2(Head(run.todo)), NoHeaders, NoParams, NoBody)
    /\ run' = LET r == Requested(run, sent')
              IN  IF call'.outcome # "returned"
                  THEN command_except_Exception(r, <<"request", "request_raised">>)
                  ELSE Goto(r, "deleting_v3", <<"request">>)

\* delete_alerting_policy_v3(policy_id, ignore_alerts=True) in the loop of
\* delete_all_policies
delete_alerting_policy_v3 ==
    /\ run.pc = "deleting_v3"
    /\ delete(Analytics, PolicyUrlV3(Head(run.todo)), NoHeaders, IgnoreAlerts, NoBody)
    /\ run' = LET r == Requested(run, sent')
                  t == [r EXCEPT !.todo = Tail(@)]
              IN  IF call'.outcome # "returned"
                  THEN command_except_Exception(r, <<"request", "request_raised">>)
                  ELSE IF t.todo = <<>> THEN Goto(t, "returned", <<"request">>)
                  ELSE Goto(t, "deleting_v2", <<"request">>)

\* the operator interrupts a bulk-delete command at its prompt or during a
\* request: KeyboardInterrupt is not an Exception and leaves the command
command_KeyboardInterrupt ==
    /\ run.pc \in {"confirm", "deleting", "deleting_v2", "deleting_v3"}
    /\ run' = Goto([run EXCEPT !.interrupted_at = run.pc], "raised", <<"interrupt">>)
    /\ UNCHANGED <<config, config_given, constructed, token, token_before, call, sent,
                   loginCalled>>

(* ------------------------------------------------------------------ *)
(* Properties                                                         *)
(* ------------------------------------------------------------------ *)

\* the exchange of a send_request call that reached the transport
TheRequest == sent[1]

SendReached == call.op = "send_request" /\ sent # <<>>

\* a standalone client with exactly one configured login path
SingleLoginPath(c) ==
    /\ ~config[c].replicated
    /\ api_truthy(config[c].login_api)
    /\ Len(config[c].login_api.paths) = 1

\* the first path segment of a path that begins with "/"
FirstSegment(s) ==
    LET rest == Tail(s)
        stops == {k \in 1 .. Len(rest) : rest[k] = "/"}
        end == IF stops = {} THEN Len(rest) + 1
               ELSE CHOOSE k \in stops : \A j \in stops : k <= j
    IN  SubSeq(rest, 1, end - 1)

BeginsWithSlash(s) == s # <<>> /\ Head(s) = "/"

IsTokenType(cred) == "token" \in DOMAIN cred
IsCookieType(cred) == "cookies" \in DOMAIN cred

\* C1 as stated: on a standalone client with one login path, a first login()
\* call that found the list empty issued exactly one POST, and after every
\* later login() call exactly one credential is stored and that call issued
\* no POST.
C1_Original ==
    \A c \in Clients :
        (call.op = "login" /\ call.client = c /\ SingleLoginPath(c)) =>
            IF call.first
            THEN token_before = <<>> => Len(sent) = 1
            ELSE Len(token) = 1 /\ sent = <<>>

\* C1 as amended: on a standalone client with one login path, a login() call
\* made while a credential exists issues no POST and leaves the list as it
\* was; a login() call made with the list empty issues exactly one POST and,
\* when that POST does not raise, leaves exactly one credential.
C1_LoginIdempotent ==
    \A c \in Clients :
        (call.op = "login" /\ call.client = c /\ SingleLoginPath(c)) =>
            IF token_before # <<>>
            THEN sent = <<>> /\ token = token_before
            ELSE Len(sent) = 1 /\ (call.outcome = "returned" => Len(token) = 1)

\* a second login() call on a one-path client that holds its one credential
C1_Witness ==
    /\ call.op = "login" /\ ~call.first
    /\ SingleLoginPath(call.client)
    /\ Len(token_before) = 1
    /\ token[1].login_api = config[call.client].login_api.paths[1]

\* C2: a login() call on a standalone client with N login paths, made with the
\* list empty and in which no POST raises, stores exactly N credentials, the
\* i-th one for the i-th configured path, with one POST per path.
C2_OneCredentialPerPath ==
    \A c \in Clients :
        ( /\ call.op = "login" /\ call.client = c
          /\ ~config[c].replicated /\ api_truthy(config[c].login_api)
          /\ token_before = <<>> /\ call.outcome = "returned" ) =>
            LET paths == config[c].login_api.paths
            IN  /\ Len(token) = Len(paths)
                /\ Len(sent) = Len(paths)
                /\ \A i \in 1 .. Len(paths) :
                     /\ token[i].login_api = paths[i]
                     /\ sent[i].url = config[c].url \o paths[i]

\* a login() call that stored two credentials for two configured paths
C2_Witness ==
    /\ call.op = "login" /\ call.outcome = "returned"
    /\ token_before = <<>>
    /\ Len(config[call.client].login_api.paths) = 2
    /\ Len(token) = 2
    /\ token[1].login_api # token[2].login_api

\* C3: login() and logout() on a gateway-fronted client issue no HTTP request
\* and leave the credential list as it was, in every state.
C3_GatewayNoOp ==
    \A c \in Clients :
        ( /\ config[c].replicated /\ call.client = c
          /\ call.op \in {"login", "logout"} ) =>
            /\ sent = <<>>
            /\ token = token_before
            /\ call.outcome = "returned"

\* logout() on a gateway-fronted client whose class holds credentials and
\* whose configuration names a logout path
C3_Witness ==
    /\ call.op = "logout"
    /\ config[call.client].replicated
    /\ api_truthy(config[call.client].logout_api)
    /\ token # <<>>
    /\ sent = <<>>

\* C4: the credentials a login() call appends are, in order, one for each login
\* POST that returned: token-type with the header's value when the response
\* carries Authorization, cookie-type with the response's cookie jar when it
\* does not; and no stored credential is both token-type and cookie-type.
C4_CredentialFromResponse ==
    /\ \A i \in 1 .. Len(token) : ~(IsTokenType(token[i]) /\ IsCookieType(token[i]))
    /\ call.op = "login" =>
         LET n0 == Len(token_before)
             returned == {i \in 1 .. Len(sent) : ~sent[i].resp.raised}
         IN  /\ Len(token) = n0 + Cardinality(returned)
             /\ \A i \in returned :
                  LET r == sent[i].resp
                      cred == token[n0 + i]
                  IN  IF "Authorization" \in DOMAIN r.headers
                      THEN /\ IsTokenType(cred) /\ ~IsCookieType(cred)
                           /\ cred.token = r.headers["Authorization"]
                      ELSE /\ IsCookieType(cred) /\ ~IsTokenType(cred)
                           /\ cred.cookies = r.cookies

\* a login() call that stored a token-type and a cookie-type credential
C4_Witness ==
    /\ call.op = "login"
    /\ Len(token) = 2 /\ token_before = <<>>
    /\ IsTokenType(token[1]) /\ "Authorization" \in DOMAIN sent[1].resp.headers
    /\ IsCookieType(token[2]) /\ "Authorization" \notin DOMAIN sent[2].resp.headers

\* whether the request carries the credential: a token as the Authorization
\* header (unless the caller supplied that header), a cookie jar as the cookies
Attached(cred, x, extra) ==
    /\ IsTokenType(cred) /\ "Authorization" \notin DOMAIN extra.dict =>
         /\ "Authorization" \in DOMAIN x.headers
         /\ x.headers["Authorization"] = cred.token
    /\ IsCookieType(cred) => x.cookies = cred.cookies

\* C5 as stated: with exactly one stored credential every request of
\* send_request carries it, token or cookie jar, whatever the URI.
C5_Original ==
    (SendReached /\ Len(token) = 1) => Attached(token[1], TheRequest, call.headers)

C7_Original ==
    \A c \in Clients, d \in Clients :
        (c # d /\ call.op = "login" /\ call.client = c) => self_token(d) = token_before

\* C8 as stated: every request of send_request on a gateway-fronted client
\* carries X-Forwarded-Tenant-Id equal to the configured tenant id and
\* X-Forwarded-User-Roles equal to the configured roles, whatever the caller's
\* headers.
C8_Original ==
    \A c \in Clients :
        (SendReached /\ call.client = c /\ config[c].replicated) =>
            /\ dict_get(TheRequest.headers, "X-Forwarded-Tenant-Id") = config[c].tenant_id
            /\ dict_get(TheRequest.headers, "X-Forwarded-User-Roles") = config[c].user_roles

\* the value the forwarding header k is configured to have
Forwarded(c, k) ==
    IF k = "X-Forwarded-Tenant-Id" THEN config[c].tenant_id ELSE config[c].user_roles

\* C8 as amended: every request of send_request on a gateway-fronted client
\* carries both forwarding headers; each has the configured value unless the
\* caller's headers name it, and then it has the caller's value.
C8_ForwardingHeaders ==
    \A c \in Clients :
        (SendReached /\ call.client = c /\ config[c].replicated) =>
            \A k \in {"X-Forwarded-Tenant-Id", "X-Forwarded-User-Roles"} :
                /\ k \in DOMAIN TheRequest.headers
                /\ TheRequest.headers[k] =
                     IF k \in DOMAIN call.headers.dict THEN call.headers.dict[k]
                     ELSE Forwarded(c, k)

\* a gateway-fronted request with the configured tenant id and roles, sent
\* with caller headers that name neither
C8_Witness ==
    /\ SendReached /\ config[call.client].replicated
    /\ ~call.headers.isNone
    /\ "X-Forwarded-Tenant-Id" \notin DOMAIN call.headers.dict
    /\ TheRequest.headers["X-Forwarded-Tenant-Id"] = config[call.client].tenant_id
    /\ TheRequest.headers["X-Forwarded-User-Roles"] = config[call.client].user_roles

\* C9: the headers of a request of send_request have the caller's value for
\* every key the caller supplies and the computed value for every computed
\* key (Accept, forwarding headers, Authorization) the caller does not supply,
\* and no other key.
C9_CallerHeadersOverride ==
    SendReached =>
        LET c == call.client
            given == call.headers.dict
            computed == computed_headers(c, _get_auth_token(c, call.uri).value)
            h == TheRequest.headers
        IN  /\ DOMAIN h = DOMAIN computed \cup DOMAIN given
            /\ \A k \in DOMAIN given : h[k] = given[k]
            /\ \A k \in DOMAIN computed \ DOMAIN given : h[k] = computed[k]
            /\ "Accept" \in DOMAIN computed
            /\ "Accept" \notin DOMAIN given => h["Accept"] = "application/json"

\* a request whose Accept header is the caller's, not the computed one
C9_Witness ==
    /\ SendReached
    /\ "Accept" \in DOMAIN call.headers.dict
    /\ TheRequest.headers["Accept"] = "text/xml"
    /\ TheRequest.headers["X-Trace"] = "1"

\* C10: when the backend answers a send_request call with a non-2xx status,
\* the call raises nothing and returns that very response.
C10_NonOkReturned ==
    ( /\ SendReached /\ ~TheRequest.resp.raised
      /\ ~(TheRequest.resp.status \in 200 .. 299) ) =>
        /\ call.outcome = "returned"
        /\ call.ret = RetResponse(TheRequest.resp)

\* a send_request call that returned a 500 response
C10_Witness ==
    /\ SendReached
    /\ TheRequest.resp.status = 500
    /\ call.outcome = "returned"
    /\ call.ret.kind = "response" /\ call.ret.value.status = 500

\* C11: when the transport fails during a send_request call, the call raises
\* the transport's error: it returns nothing, and no response object.
C11_TransportErrorPropagates ==
    (SendReached /\ TheRequest.resp.raised) =>
        /\ call.outcome = "transport_error"
        /\ call.ret = RetNone
        /\ call.ret.kind # "response"

\* a send_request call on an authenticated client whose request was refused
C11_Witness ==
    /\ SendReached /\ TheRequest.resp.raised
    /\ token # <<>>
    /\ call.outcome = "transport_error"

\* whether the sequence s begins with the sequence p
IsPrefix(p, s) == Len(p) <= Len(s) /\ SubSeq(s, 1, Len(p)) = p

\* C12: every step keeps the credential list as a prefix of the new list (no
\* credential is removed or replaced), a step that ends a logout() call
\* leaves the list as it was, and no step empties a list that holds a
\* credential.
C12_AppendOnly ==
    [][ /\ IsPrefix(token, token')
        /\ call'.op = "logout" => token' = token
        /\ token # <<>> => token' # <<>> ]_vars

\* a logout() call that posted to the backend and left the credentials stored
C12_Witness ==
    /\ call.op = "logout" /\ sent # <<>>
    /\ token_before # <<>> /\ token = token_before

\* C13: logout() on a standalone client issues no HTTP request when no logout
\* path is configured or when the credential list is empty.
C13_LogoutNoOp ==
    \A c \in Clients :
        ( /\ call.op = "logout" /\ call.client = c /\ ~config[c].replicated
          /\ (~api_truthy(config[c].logout_api) \/ token_before = <<>>) ) =>
            /\ sent = <<>>
            /\ call.outcome = "returned"

\* logout() on a standalone client that names logout paths and holds no
\* credential
C13_Witness ==
    /\ call.op = "logout" /\ ~config[call.client].replicated
    /\ api_truthy(config[call.client].logout_api)
    /\ token_before = <<>> /\ sent = <<>>

\* the token the selection rule picks for a path that begins with "/": that
\* of the first credential whose login path has the path's first segment,
\* else that of the first credential
SelectedToken(tok, path) ==
    LET same == {i \in 1 .. Len(tok) :
                    FirstSegment(tok[i].login_api) = FirstSegment(path)}
        cred == IF same = {} THEN tok[1]
                ELSE tok[CHOOSE i \in same : \A j \in same : i <= j]
    IN  dict_get(cred, "token")

\* x is the logout POST of client c for the logout path
LogoutPost(c, x, path) ==
    /\ x.method = "POST"
    /\ x.url = config[c].url \o path
    /\ "Authorization" \in DOMAIN x.headers
    /\ x.headers["Authorization"] = SelectedToken(token, path)

StandaloneLogout(c) ==
    /\ call.op = "logout" /\ call.client = c
    /\ ~config[c].replicated /\ token_before # <<>>

\* C14 as stated: logout() on a standalone client that holds a credential
\* issued exactly one POST per configured logout path, to base URL + path,
\* with the token the selection rule picks for that path as Authorization.
C14_Original ==
    \A c \in Clients :
        StandaloneLogout(c) =>
            LET paths == config[c].logout_api.paths
            IN  /\ Len(sent) = Len(paths)
                /\ \A i \in 1 .. Len(paths) : LogoutPost(c, sent[i], paths[i])

\* C14 as amended: logout() on a standalone client that holds a credential
\* posts to the configured logout paths in order, once each, to base URL +
\* path with the selected token as Authorization, until a POST raises: only
\* the last POST can have raised, then logout() raises and the paths after it
\* get no POST; when no POST raises every path got its POST.
C14_LogoutPosts ==
    \A c \in Clients :
        StandaloneLogout(c) =>
            LET paths == config[c].logout_api.paths
                n == Len(sent)
            IN  /\ n <= Len(paths)
                /\ \A i \in 1 .. n : LogoutPost(c, sent[i], paths[i])
                /\ \A i \in 1 .. n : sent[i].resp.raised => i = n
                /\ IF n > 0 /\ sent[n].resp.raised
                   THEN call.outcome = "transport_error"
                   ELSE call.outcome = "returned" /\ n = Len(paths)

\* a logout() call whose two POSTs carry two different stored tokens, the
\* first one that of the second credential
C14_Witness ==
    /\ call.op = "logout" /\ Len(sent) = 2 /\ Len(token) = 2
    /\ IsTokenType(token[1]) /\ IsTokenType(token[2])
    /\ token[1].token # token[2].token
    /\ sent[1].headers["Authorization"] = token[2].token
    /\ sent[2].headers["Authorization"] = token[1].token

\* C15 as stated: every call of send_request or of a wrapper issued exactly
\* one HTTP request.
C15_Original ==
    call.op \in {"send_request"} \cup Wrappers => Len(sent) = 1

\* C16 as stated: every field of every config object has the value the object
\* was constructed with.
C16_Original ==
    \A c \in Clients : config[c] = config_given[c]

\* C18: a login POST that returned a status outside 2xx stored a credential
\* for its login path, so the list is not empty after the call; and a login()
\* call made while the list holds a credential posts nothing and stores
\* nothing.
C18_NonOkLoginStores ==
    call.op = "login" =>
        /\ \A i \in 1 .. Len(sent) :
             (~sent[i].resp.raised /\ sent[i].resp.status \notin 200 .. 299) =>
                 /\ Len(token) >= Len(token_before) + i
                 /\ sent[i].url =
                      config[call.client].url \o token[Len(token_before) + i].login_api
                 /\ _is_auth_token(call.client)
        /\ token_before # <<>> => sent = <<>> /\ token = token_before

\* a login() call whose one POST was answered 401 and left a credential
C18_Witness ==
    /\ call.op = "login" /\ Len(sent) = 1
    /\ sent[1].resp.status = 401
    /\ Len(token) = 1 /\ token_before = <<>>
    /\ token[1].login_api = config[call.client].login_api.paths[1]

LoginWithoutUser(c) ==
    /\ call.op = "login" /\ call.client = c
    /\ ~config[c].replicated /\ api_truthy(config[c].login_api)
    /\ token_before = <<>>
    /\ (config[c].username = None \/ config[c].password = None)

\* x is the login POST of client c for the login path
LoginPost(c, x, path) ==
    /\ x.method = "POST"
    /\ x.url = config[c].url \o path
    /\ x.data = [username |-> config[c].username, password |-> config[c].password]

\* C19 as stated: login() on a standalone client with a login path, an empty
\* list and no username or password emitted a warning and issued the login
\* POST for every configured login path.
C19_Original ==
    \A c \in Clients :
        LoginWithoutUser(c) =>
            LET paths == config[c].login_api.paths
            IN  /\ call.warning
                /\ Len(sent) = Len(paths)
                /\ \A i \in 1 .. Len(paths) : LoginPost(c, sent[i], paths[i])

\* C19 as amended: such a login() call emitted a warning and issued the login
\* POSTs in the configured order, at least the first one, until one raised:
\* every configured path got its POST when no POST raised.
C19_MissingUserWarns ==
    \A c \in Clients :
        LoginWithoutUser(c) =>
            LET paths == config[c].login_api.paths
                n == Len(sent)
            IN  /\ call.warning
                /\ n >= 1 /\ n <= Len(paths)
                /\ \A i \in 1 .. n : LoginPost(c, sent[i], paths[i])
                /\ \A i \in 1 .. n : sent[i].resp.raised => i = n
                /\ ~sent[n].resp.raised => n = Len(paths)

\* a login() call without username that warned and posted to both of its
\* login paths
C19_Witness ==
    /\ call.op = "login" /\ call.warning
    /\ config[call.client].username = None
    /\ Len(config[call.client].login_api.paths) = 2
    /\ Len(sent) = 2
    /\ sent[2].data.username = None

\* C20: a step that ends a send_request call leaves the credential list and
\* every config object as they were, whether the call returned or raised.
C20_SendRequestFrame ==
    [][ (call'.op = "send_request" /\ constructed' = constructed) =>
            (token' = token /\ config' = config) ]_vars

\* a send_request call on an authenticated client that raised
C20_Witness ==
    /\ call.op = "send_request" /\ call.outcome # "returned"
    /\ token # <<>> /\ token = token_before

\* a tool run that dispatched a command and has ended
RunEnded == run.exited /\ run.dispatched

Logged(e) == \E i \in 1 .. Len(run.log) : run.log[i] = e

\* C17: a tool run that dispatched a command ends with exit code 0 when the
\* operator interrupted it; else with 1 when login() or logout() raised (no
\* handler but main's) or the request helper took its failure exit; else
\* with 0, errors printed by the command included; and with no other code.
C17_ExitCodes ==
    RunEnded =>
        /\ run.code \in {0, 1}
        /\ run.code =
             IF Logged("interrupt") THEN 0
             ELSE IF Logged("login_raised") \/ Logged("logout_raised")
                     \/ Logged("helper_exit")
             THEN 1
             ELSE 0
        /\ ~Logged("interrupt") /\ run.code = 0 => Logged("logout")

\* a run of so.py interrupted after its request was answered, which ended
\* with code 0
C17_Witness ==
    /\ RunEnded /\ run.code = 0
    /\ Logged("request") /\ Logged("interrupt") /\ ~Logged("prompt")
    /\ run.tool = "so" /\ sent # <<>> /\ ~sent[1].resp.raised

\* the method each wrapper stands for
WrapperMethod ==
    [get |-> "GET", post |-> "POST", put |-> "PUT", patch |-> "PATCH",
     delete |-> "DELETE"]

\* C21: a call of get/post/put/patch/delete issued the request that
\* send_request issues for the corresponding method and the same uri,
\* headers, params and body (none when credential selection raised), and
\* ended as send_request ends for the transport's answer.
C21_WrapperEquivalence ==
    call.op \in Wrappers =>
        LET c == call.client
            h == build_http_headers(c, call.uri, call.headers)
            ck == _get_auth_cookies(c, call.uri)
        IN  IF h.raised \/ ck.raised
            THEN sent = <<>> /\ call.outcome = "IndexError"
            ELSE /\ Len(sent) = 1
                 /\ sent[1] = Exchange(WrapperMethod[call.op], config[c].url \o call.uri,
                                       h.value, ck.value, call.params, None, call.body,
                                       sent[1].resp)
                 /\ call.method = WrapperMethod[call.op]
                 /\ [outcome |-> call.outcome, ret |-> call.ret]
                      = send_request_result(sent[1].resp)

\* a patch call whose request is a PATCH with the caller's params as query
\* and the caller's body as JSON, answered and returned
C21_Witness ==
    /\ call.op = "patch" /\ Len(sent) = 1
    /\ sent[1].method = "PATCH"
    /\ ~call.body.isNone /\ call.body # call.params
    /\ sent[1].json = call.body /\ sent[1].params = call.params
    /\ call.ret = RetResponse(sent[1].resp)

\* the places of the event e in the run's log
At(e) == {i \in 1 .. Len(run.log) : run.log[i] = e}

\* C22 as stated: in a tool run that dispatched a command and has ended,
\* login() was called before every request of the command, and logout() was
\* called after the last request.
C22_Original ==
    RunEnded =>
        /\ \A i \in At("request") : \E j \in At("login") : j < i
        /\ Logged("request") =>
             \E j \in At("logout") : \A i \in At("request") : i < j

\* C22 as amended: in a tool run that dispatched a command and has ended,
\* login() was called before every request of the command; logout() was
\* called, after the last request, exactly in the runs whose login() returned
\* and that neither the operator's interrupt nor the request helper's failure
\* exit ended.
C22_LoginFirstLogoutLast ==
    RunEnded =>
        /\ \A i \in At("request") : \E j \in At("login") : j < i
        /\ \A j \in At("logout") : \A i \in At("request") \cup At("login") : i < j
        /\ Logged("logout") <=>
             ~(Logged("interrupt") \/ Logged("helper_exit") \/ Logged("login_raised"))

\* a run that logged in, made its request, logged out and ended
C22_Witness ==
    /\ RunEnded /\ run.code = 0
    /\ \E i \in At("login"), j \in At("request"), k \in At("logout") : i < j /\ j < k
    /\ call.op = "logout"

\* C23: a tool run that the operator interrupted while its command was in a
\* request or at a prompt ended there with exit code 0, and logout() was not
\* called.
C23_InterruptExitsZero ==
    (RunEnded /\ run.interrupted_at \in {"command", "prompt"}) =>
        /\ run.code = 0
        /\ ~Logged("logout")
        /\ run.log[Len(run.log)] = "interrupt"
        /\ call.op # "logout"

\* a run interrupted at the prompt of its command, after a request that was
\* answered
C23_Witness ==
    /\ RunEnded /\ run.interrupted_at = "prompt"
    /\ Logged("login") /\ Logged("request")
    /\ run.code = 0 /\ token # <<>>

\* C24 as stated: a tool run in which a request of the command failed with a
\* transport error, and which the operator did not interrupt, ended with a
\* non-zero exit code.
C24_Original ==
    (RunEnded /\ Logged("request_raised") /\ ~Logged("interrupt")) => run.code # 0

\* C25 as stated: the URL requested by a generic verb command of the agent
\* tool is the client's base URL followed by the given URI, joined as the
\* command joins them or directly, so that the base URL occurs in it once.
C25_Original ==
    (run.cmd = "verb" /\ sent # <<>>) =>
        \/ sent[1].url = config["agent"].url \o run.arg
        \/ sent[1].url = config["agent"].url \o <<"/">> \o run.arg

\* C26 as stated: a request made through the helper send_request(method,
\* url, body) has body as its JSON body, carries no key of body among its
\* headers, and was made without caller-supplied headers.
C26_Original ==
    (run.cmd = "send_request" /\ sent # <<>>) =>
        /\ sent[1].json = run.body
        /\ \A k \in DOMAIN run.body.dict : k \notin DOMAIN sent[1].headers
        /\ call.headers.isNone

\* C27 as stated: when the headers build_http_headers computes for a request
\* of send_request, before the caller's are merged, have an Authorization
\* key, its value is not null and is a token some login response returned.
C27_Original ==
    SendReached =>
        LET c == call.client
            computed == computed_headers(c, _get_auth_token(c, call.uri).value)
        IN  "Authorization" \in DOMAIN computed =>
                /\ computed["Authorization"] # None
                /\ computed["Authorization"] \in Tokens

\* C28 as stated: while no other client has logged in, the credential list
\* of a standalone client with more than one login path is empty or holds
\* exactly one credential for each configured login path, in order.
C28_Original ==
    \A c \in Clients :
        ( /\ ~config[c].replicated /\ Len(config[c].login_api.paths) > 1
          /\ \A d \in Clients \ {c} : ~loginCalled[d] ) =>
            LET paths == config[c].login_api.paths
            IN  \/ self_token(c) = <<>>
                \/ /\ Len(self_token(c)) = Len(paths)
                   /\ \A i \in 1 .. Len(paths) : self_token(c)[i].login_api = paths[i]

\* the DELETE requests a bulk-delete command has issued, in order
Deletes == SelectSeq(run.requests, LAMBDA q : q.method = "DELETE")

\* the operator answered yes or y, in any letter case
AnsweredYes == run.answer \in {"yes", "y", "YES", "Yes", "Y"}

\* the fetched session ids that begin with the prefix given to
\* delete_sessions, all of them for the prefix "all", in the fetched order
Matching ==
    SelectSeq(run.fetched, LAMBDA id : run.arg = <<"all">> \/ IsPrefix(run.arg, id))

\* C29: delete_sessions and delete_all_policies issue no DELETE request
\* unless the operator answered the prompt with yes or y; the DELETE requests
\* of delete_sessions are for the session ids that match the prefix (all ids
\* for "all"), one per id in the fetched order and none for another id, and
\* every matching id has its DELETE once the confirmed command ends without
\* a failed request.
C29_BulkDeleteConfirmed ==
    run.cmd \in {"delete_sessions", "delete_all_policies"} =>
        /\ Deletes # <<>> => AnsweredYes
        /\ run.cmd = "delete_sessions" =>
             /\ Len(Deletes) <= Len(Matching)
             /\ \A i \in 1 .. Len(Deletes) :
                  Deletes[i].url = config["agent"].url \o SessionUrl(Matching[i])
             /\ (run.pc = "returned" /\ AnsweredYes /\ ~Logged("request_raised")) =>
                  Len(Deletes) = Len(Matching)

\* delete_sessions("s") fetched s1, t1 and s2, the operator typed Y, and the
\* command returned after the DELETE requests for s1 and s2
C29_Witness ==
    /\ run.cmd = "delete_sessions" /\ run.pc = "returned"
    /\ run.arg = <<"s">> /\ run.answer = "Y"
    /\ Len(run.fetched) = 3
    /\ Len(Deletes) = 2
    /\ Deletes[2].url = config["agent"].url \o SessionUrl(<<"s", "2">>)

\* C30 as stated: no send_request call ends with an error of credential
\* selection; every call reaches its HTTP request.
C30_Original ==
    call.op = "send_request" => (call.outcome # "IndexError" /\ sent # <<>>)

Next ==
    \/ \E c \in Clients : __init__(c) /\ UNCHANGED run
    \/ \E c \in Clients : login(c) /\ UNCHANGED run
    \/ \E c \in Clients : logout(c) /\ UNCHANGED run
    \/ \E c \in Clients, method \in Methods, uri \in Uris, headers \in ExtraHeaders, params \in Params, body \in Bodies :
         send_request(c, method, uri, headers, params, body) /\ UNCHANGED run

Spec == Init /\ [][Next]_vars

\* one process whose clients are a gateway-fronted one and a two-path one,
\* called through the convenience wrappers as well
InitWrappers ==
    /\ Init
    /\ config = [agent |-> ConfigReplicated, so |-> ConfigMulti]

NextWrappers ==
    \/ \E c \in Clients : __init__(c) /\ UNCHANGED run
    \/ \E c \in Clients : login(c) /\ UNCHANGED run
    \/ \E c \in Clients : logout(c) /\ UNCHANGED run
    \/ \E c \in Clients, method \in Methods, uri \in WrapperUris, a \in WrapperArgs :
         send_request(c, method, uri, NoHeaders, a.params, a.body) /\ UNCHANGED run
    \/ \E c \in Clients, uri \in WrapperUris, a \in WrapperArgs :
         get(c, uri, NoHeaders, a.params, a.body) /\ UNCHANGED run
    \/ \E c \in Clients, uri \in WrapperUris, a \in WrapperArgs :
         post(c, uri, NoHeaders, a.params, a.body) /\ UNCHANGED run
    \/ \E c \in Clients, uri \in WrapperUris, a \in WrapperArgs :
         put(c, uri, NoHeaders, a.params, a.body) /\ UNCHANGED run
    \/ \E c \in Clients, uri \in WrapperUris, a \in WrapperArgs :
         patch(c, uri, NoHeaders, a.params, a.body) /\ UNCHANGED run
    \/ \E c \in Clients, uri \in WrapperUris, a \in WrapperArgs :
         delete(c, uri, NoHeaders, a.params, a.body) /\ UNCHANGED run

SpecWrappers == InitWrappers /\ [][NextWrappers]_vars

\* one run of a tool, from the command line to the exit code
NextTool ==
    \/ \E t \in Clients : \E argv \in Argvs[t] : tool_start(t, argv)
    \/ import_rep
    \/ import_config
    \/ \E c \in Clients : import_construct(c)
    \/ main_parse
    \/ main_login
    \/ print_sessions
    \/ print_all_y1564_sessions
    \/ print_all_y1564_sessions_input
    \/ main_logout
    \/ main_KeyboardInterrupt

SpecTool == Init /\ [][NextTool]_vars

\* the clients are built and logged in, then one command function is called
NextCommands ==
    \/ \E c \in Clients : run.pc = "none" /\ __init__(c) /\ UNCHANGED run
    \/ \E c \in Clients : run.pc = "none" /\ login(c) /\ UNCHANGED run
    \/ \E method \in VerbMethods, uri \in VerbUris : agent_verb(method, uri)
    \/ \E method \in {"GET", "POST"}, body \in HelperBodies :
         so_send_request_call(method, Y1564Url, body)
    \/ \E prefix \in Prefixes : delete_sessions(prefix)
    \/ delete_all_policies
    \/ confirm_input
    \/ delete_sessions_loop
    \/ delete_alerting_policy_v2
    \/ delete_alerting_policy_v3
    \/ command_KeyboardInterrupt

SpecCommands == Init /\ [][NextCommands]_vars

====
